---- MODULE Spec2Model ----
(***************************************************************************)
(* Model of etl_wheather.py: the incremental forecast extraction with its  *)
(* per-city watermark file, the full-refresh city-detail extraction, the   *)
(* append-only bronze tables and the bronze -> silver join.                *)
(*                                                                         *)
(* A calendar date is a day number: 0 is 1900-01-01 (the default of        *)
(* last_dates.get), 1..MaxDate are later days.  A date string stored in    *)
(* the watermark file is the day number it denotes when strptime accepts   *)
(* it, and BadEntry when strptime raises ValueError on it.                 *)
(***************************************************************************)
EXTENDS Integers, Sequences, FiniteSets, TLC

\* ------------------------------------------------------------- bounds
MaxDate == 2
MaxRuns == 2
MaxFaults == 2

\* ---------------------------------------------------------- constants
\* line 39, cut to two of the eleven capitals
cities == <<"Lima", "Quito">>
Cities == {cities[k] : k \in 1..Len(cities)}
\* "1900-01-01", the default of last_dates.get (line 91)
Sentinel == 0
\* a stored string that "%Y-%m-%d" does not match
BadEntry == -1
Dates == Sentinel..MaxDate

EmptyDict == [c \in {} |-> Sentinel]
Put(d, c, v) == [k \in (DOMAIN d) \cup {c} |-> IF k = c THEN v ELSE d[k]]

\* what the forecast endpoint can answer: a RequestException, a payload
\* whose Date strptime rejects, or a payload with a calendar date
FcError == [kind |-> "error", date |-> Sentinel]
FcBadDate == [kind |-> "bad", date |-> Sentinel]
FcResults == {FcError, FcBadDate} \cup {[kind |-> "ok", date |-> d] : d \in Dates}

\* the states of metadata/last_extracted_dates.json
NoFile == [kind |-> "absent", data |-> EmptyDict]
Malformed == [kind |-> "malformed", data |-> EmptyDict]
JsonFile(d) == [kind |-> "json", data |-> d]

\* the states of metadata/ciudades_detalles.json
NoSnapshot == [kind |-> "absent", data |-> <<>>]
PartialSnapshot == [kind |-> "partial", data |-> <<>>]

None == [some |-> FALSE, rows |-> <<>>]
Some(rows) == [some |-> TRUE, rows |-> rows]

NoEvent == [op |-> "none", city |-> "", loc |-> TRUE, fc |-> FcError,
            det |-> TRUE, ok |-> TRUE, ok2 |-> TRUE, calls |-> <<>>]

VARIABLES
  file,          \* metadata/last_extracted_dates.json
  snapshot,      \* metadata/ciudades_detalles.json
  bronze_fc,     \* data/bronze/forecasts_south.parquet, rows in append order
  bronze_det,    \* data/bronze/ciudad_detalles.parquet
  silver,        \* data/silver/forecasts_join.parquet
  last_dates,    \* main's dict
  forecast_list, \* main's list
  country_info,  \* main's list
  df_transform,  \* main's df_transform
  i,             \* position of the for loop in cities
  pc,            \* where main is
  abort,         \* the uncaught exception that ended main, "" if none
  run,           \* number of the current invocation of the script
  faults,        \* failures the environment has injected so far
  ev,            \* the inputs of the last step
  accepted,      \* per city, the dates extract_forecast returned a row for
  fileAtStart,   \* the watermark file when the run started
  fcAtStart,     \* Len(bronze_fc) when the run started
  detAtStart,    \* Len(bronze_det) when the run started
  sameRemote     \* every city so far answered its persisted watermark date

vars == <<file, snapshot, bronze_fc, bronze_det, silver, last_dates,
          forecast_list, country_info, df_transform, i, pc, abort, run,
          faults, ev, accepted, fileAtStart, fcAtStart, detAtStart,
          sameRemote>>

persistent == <<file, snapshot, bronze_fc, bronze_det, silver>>
startMarks == <<fileAtStart, fcAtStart, detAtStart>>

\* ---------------------------------------------------- pure functions

\* mutant: a load that also swallows the decode error and starts from {}
LoadLastExtractedDates_Reset(f) ==
  [raised |-> FALSE, data |-> IF f.kind = "json" THEN f.data ELSE EmptyDict]

\* load_last_extracted_dates: {} on FileNotFoundError, json.load's
\* JSONDecodeError is not caught
LoadLastExtractedDates(f) ==
  CASE f.kind = "json" -> [raised |-> FALSE, data |-> f.data]
    [] f.kind = "absent" -> [raised |-> FALSE, data |-> EmptyDict]
    [] OTHER -> [raised |-> TRUE, data |-> EmptyDict]

\* save_last_extracted_dates: the whole file is overwritten
SaveLastExtractedDates(f, data) == JsonFile(data)

\* mutant: the stored watermark is ignored
LastDate_Ignored(ld, city) == Sentinel

\* last_dates.get(city_name, "1900-01-01")
LastDate(ld, city) == IF city \in DOMAIN ld THEN ld[city] ELSE Sentinel

\* datetime.strptime(s, "%Y-%m-%d") raises ValueError or gives the date
Parseable(s) == s \in Dates

\* mutant: >= in place of >
IsNew_OrEqual(forecast_date, last_date) == forecast_date >= last_date

\* forecast_date > last_date
IsNew(forecast_date, last_date) == forecast_date > last_date

\* mutant: the None key is not tested
LocationFound_Always(loc) == TRUE

\* if location_key:
LocationFound(loc) == loc

\* extract_forecast.  raised: an exception left the function; requested:
\* the forecast endpoint was called; rows: <<the row>> or <<>> for None
ExtractForecast(city, fc, ld) ==
  LET w == LastDate(ld, city) IN
  IF ~Parseable(w)
  THEN [raised |-> TRUE, cause |-> "watermark_entry", requested |-> FALSE,
        rows |-> <<>>, last_dates |-> ld]
  ELSE CASE fc.kind = "error" ->
              [raised |-> FALSE, cause |-> "", requested |-> TRUE,
               rows |-> <<>>, last_dates |-> ld]
         [] fc.kind = "bad" ->
              [raised |-> TRUE, cause |-> "forecast_date", requested |-> TRUE,
               rows |-> <<>>, last_dates |-> ld]
         [] OTHER ->
              IF IsNew(fc.date, w)
              THEN [raised |-> FALSE, cause |-> "", requested |-> TRUE,
                    rows |-> <<[city |-> city, date |-> fc.date]>>,
                    last_dates |-> Put(ld, city, fc.date)]
              ELSE [raised |-> FALSE, cause |-> "", requested |-> TRUE,
                    rows |-> <<>>, last_dates |-> ld]

\* mutant: the write error is not caught
FormatoDeltalake_Raises(table, df, ok) ==
  [raised |-> ~ok, table |-> IF ok THEN table \o df ELSE table]

\* formato_deltalake: mode="append", every exception caught and printed
FormatoDeltalake(table, df, ok) ==
  [raised |-> FALSE, table |-> IF ok THEN table \o df ELSE table]

\* pd.merge(df, df_cities, on city, how='left') for one forecast row
JoinRow(f, m) ==
  IF m = <<>>
  THEN <<[city |-> f.city, date |-> f.date, det |-> 0]>>
  ELSE [k \in 1..Len(m) |-> [city |-> f.city, date |-> f.date, det |-> m[k].run]]

RECURSIVE LeftJoin(_, _)
LeftJoin(df, df_cities) ==
  IF df = <<>> THEN <<>>
  ELSE JoinRow(Head(df), SelectSeq(df_cities, LAMBDA r : r.city = Head(df).city))
         \o LeftJoin(Tail(df), df_cities)

\* transform_data: a table that cannot be read, or an empty one (df_combined
\* is then unbound), ends in the except branch and returns None
TransformData(fc, det, readOk) ==
  IF ~readOk \/ fc = <<>> \/ det = <<>>
  THEN None
  ELSE Some(LeftJoin(fc, det))

\* ------------------------------------------------------------ actions

Init ==
  /\ file \in {NoFile, Malformed} \cup {JsonFile(Put(EmptyDict, c, BadEntry)) : c \in Cities}
  /\ snapshot = NoSnapshot
  /\ bronze_fc = <<>> /\ bronze_det = <<>> /\ silver = <<>>
  /\ last_dates = EmptyDict
  /\ forecast_list = <<>> /\ country_info = <<>>
  /\ df_transform = None
  /\ i = 1
  /\ pc = "start"
  /\ abort = ""
  /\ run = 1
  /\ faults = 0
  /\ ev = NoEvent
  /\ accepted = [c \in Cities |-> <<>>]
  /\ fileAtStart = file
  /\ fcAtStart = 0 /\ detAtStart = 0
  /\ sameRemote = TRUE

\* main, lines 250-253
Load ==
  /\ pc = "start"
  /\ LET r == LoadLastExtractedDates(file) IN
       /\ last_dates' = r.data
       /\ pc' = IF r.raised THEN "aborted" ELSE "loop"
       /\ abort' = IF r.raised THEN "load" ELSE ""
  /\ ev' = [NoEvent EXCEPT !.op = "load"]
  /\ UNCHANGED <<persistent, forecast_list, country_info, df_transform, i,
                 run, faults, accepted, startMarks, sameRemote>>

\* main, lines 255-268: one iteration of the loop
ProcessCity(loc, fc, det) ==
  /\ pc = "loop"
  /\ LET city == cities[i]
         found == LocationFound(loc)
         x == ExtractForecast(city, fc, last_dates)
         n == (IF loc THEN 0 ELSE 1) + (IF fc.kind = "ok" THEN 0 ELSE 1)
                + (IF det THEN 0 ELSE 1)
     IN
       /\ faults + n <= MaxFaults
       /\ faults' = faults + n
       \* inputs that are never read take one value only
       /\ (~found) => (fc = [kind |-> "ok", date |-> Sentinel] /\ det)
       /\ (found /\ x.raised) => det
       /\ (found /\ ~x.requested) => fc = [kind |-> "ok", date |-> Sentinel]
       /\ ev' = [NoEvent EXCEPT !.op = "city", !.city = city, !.loc = loc,
                   !.fc = fc, !.det = det,
                   !.calls = <<"search">>
                      \o (IF found /\ x.requested THEN <<"forecast">> ELSE <<>>)
                      \o (IF found /\ ~x.raised THEN <<"detail">> ELSE <<>>)]
       /\ IF ~found
          THEN /\ UNCHANGED <<last_dates, forecast_list, country_info, accepted, abort>>
               /\ i' = i + 1
               /\ pc' = IF i = Len(cities) THEN "save" ELSE "loop"
          ELSE IF x.raised
          THEN /\ UNCHANGED <<last_dates, forecast_list, country_info, accepted, i>>
               /\ abort' = x.cause
               /\ pc' = "aborted"
          ELSE /\ last_dates' = x.last_dates
               /\ forecast_list' = forecast_list \o x.rows
               /\ accepted' = IF x.rows = <<>> THEN accepted
                              ELSE [accepted EXCEPT ![city] = Append(@, x.rows[1].date)]
               /\ country_info' = IF det
                                  THEN Append(country_info, [city |-> city, run |-> run])
                                  ELSE country_info
               /\ abort' = abort
               /\ i' = i + 1
               /\ pc' = IF i = Len(cities) THEN "save" ELSE "loop"
       /\ sameRemote' = (sameRemote /\ loc /\ fc.kind = "ok" /\ file.kind = "json"
                          /\ city \in DOMAIN file.data /\ file.data[city] = fc.date)
  /\ UNCHANGED <<persistent, df_transform, run, startMarks>>

\* main, line 272
Save ==
  /\ pc = "save"
  /\ file' = SaveLastExtractedDates(file, last_dates)
  /\ pc' = "bronze_fc"
  /\ ev' = [NoEvent EXCEPT !.op = "save"]
  /\ UNCHANGED <<snapshot, bronze_fc, bronze_det, silver, last_dates,
                 forecast_list, country_info, df_transform, i, abort, run,
                 faults, accepted, startMarks, sameRemote>>

\* main, lines 275-281
WriteForecasts(ok) ==
  /\ pc = "bronze_fc"
  /\ (forecast_list = <<>>) => ok
  /\ faults + (IF ok THEN 0 ELSE 1) <= MaxFaults
  /\ faults' = faults + (IF ok THEN 0 ELSE 1)
  /\ LET r == IF forecast_list # <<>>
              THEN FormatoDeltalake(bronze_fc, forecast_list, ok)
              ELSE [raised |-> FALSE, table |-> bronze_fc]
     IN /\ bronze_fc' = r.table
        /\ pc' = IF r.raised THEN "aborted" ELSE "bronze_det"
        /\ abort' = IF r.raised THEN "write" ELSE abort
  /\ ev' = [NoEvent EXCEPT !.op = "bronze_fc", !.ok = ok]
  /\ UNCHANGED <<file, snapshot, bronze_det, silver, last_dates, forecast_list,
                 country_info, df_transform, i, run, accepted, startMarks,
                 sameRemote>>

\* main, lines 284-319: the snapshot file is written (any failure caught),
\* read back, and what was read is appended to the bronze table
WriteCityDetails(snap, ok) ==
  /\ pc = "bronze_det"
  /\ LET n == (IF snap = "ok" THEN 0 ELSE 1) + (IF ok THEN 0 ELSE 1)
         written == CASE snap = "ok" -> [kind |-> "json", data |-> country_info]
                      [] snap = "open_failed" -> snapshot
                      [] OTHER -> PartialSnapshot
         readable == written.kind = "json"
         r == FormatoDeltalake(bronze_det, written.data, ok)
     IN
       /\ faults + n <= MaxFaults
       /\ faults' = faults + n
       /\ (~readable \/ written.data = <<>>) => ok
       /\ snapshot' = written
       /\ IF ~readable
          THEN /\ pc' = "aborted" /\ abort' = "snapshot"
               /\ UNCHANGED bronze_det
          ELSE /\ bronze_det' = r.table
               /\ pc' = IF r.raised THEN "aborted" ELSE "transform"
               /\ abort' = IF r.raised THEN "write" ELSE abort
  /\ ev' = [NoEvent EXCEPT !.op = "bronze_det", !.ok = ok, !.ok2 = (snap = "ok")]
  /\ UNCHANGED <<file, bronze_fc, silver, last_dates, forecast_list,
                 country_info, df_transform, i, run, accepted, startMarks,
                 sameRemote>>

\* main, lines 322-325
TransformAndWrite(readOk, ok) ==
  /\ pc = "transform"
  /\ LET n == (IF readOk THEN 0 ELSE 1) + (IF ok THEN 0 ELSE 1)
         t == TransformData(bronze_fc, bronze_det, readOk)
         r == IF t.some THEN FormatoDeltalake(silver, t.rows, ok)
              ELSE [raised |-> FALSE, table |-> silver]
     IN
       /\ faults + n <= MaxFaults
       /\ faults' = faults + n
       /\ (~t.some) => ok
       /\ df_transform' = t
       /\ silver' = r.table
       /\ pc' = IF r.raised THEN "aborted" ELSE "done"
       /\ abort' = IF r.raised THEN "write" ELSE abort
  /\ ev' = [NoEvent EXCEPT !.op = "transform", !.ok = ok, !.ok2 = readOk]
  /\ UNCHANGED <<file, snapshot, bronze_fc, bronze_det, last_dates,
                 forecast_list, country_info, i, run, accepted, startMarks,
                 sameRemote>>

\* lines 329-330: the script is started again; only the files survive
NextRun ==
  /\ pc \in {"done", "aborted"}
  /\ run < MaxRuns
  /\ run' = run + 1
  /\ pc' = "start"
  /\ abort' = ""
  /\ last_dates' = EmptyDict
  /\ forecast_list' = <<>> /\ country_info' = <<>>
  /\ df_transform' = None
  /\ i' = 1
  /\ ev' = NoEvent
  /\ fileAtStart' = file
  /\ fcAtStart' = Len(bronze_fc)
  /\ detAtStart' = Len(bronze_det)
  /\ sameRemote' = TRUE
  /\ UNCHANGED <<persistent, faults, accepted>>

Next ==
  \/ Load
  \/ \E loc \in BOOLEAN, fc \in FcResults, det \in BOOLEAN : ProcessCity(loc, fc, det)
  \/ Save
  \/ \E ok \in BOOLEAN : WriteForecasts(ok)
  \/ \E snap \in {"ok", "open_failed", "partial"}, ok \in BOOLEAN : WriteCityDetails(snap, ok)
  \/ \E readOk \in BOOLEAN, ok \in BOOLEAN : TransformAndWrite(readOk, ok)
  \/ NextRun

Spec == Init /\ [][Next]_vars

\* the first deployment: no watermark file yet
InitFresh == Init /\ file = NoFile
SpecFresh == InitFresh /\ [][Next]_vars

\* ------------------------------------------------------------- claims

Watermark(d, c) == IF c \in DOMAIN d THEN d[c] ELSE Sentinel
IsPrefix(s, t) == Len(s) <= Len(t) /\ SubSeq(t, 1, Len(s)) = s
Gained(table, atStart) == SubSeq(table, atStart + 1, Len(table))
CountRows(rows, c, d) == Cardinality({k \in 1..Len(rows) : rows[k].city = c /\ rows[k].date = d})
StrictlyIncreasing(s) == \A j, k \in 1..Len(s) : j < k => s[j] < s[k]
CityStep == pc = "loop" /\ ev'.op = "city"

\* C1: a fetched forecast with a parseable date d is admitted iff d is
\* strictly greater than the city's watermark (1900-01-01 when the city has
\* no entry); when admitted, exactly the row (city, d) is produced and the
\* city's watermark becomes d; otherwise no row is produced and the
\* watermark mapping keeps its value.
C1_IncrementalFilter ==
  [][(CityStep /\ ev'.loc /\ ev'.fc.kind = "ok"
        /\ Watermark(last_dates, ev'.city) \in Dates)
       => LET c == ev'.city
              d == ev'.fc.date
              w == Watermark(last_dates, c)
          IN IF d > w
             THEN /\ forecast_list' = Append(forecast_list, [city |-> c, date |-> d])
                  /\ last_dates' = Put(last_dates, c, d)
             ELSE /\ forecast_list' = forecast_list
                  /\ last_dates' = last_dates]_vars

\* C1 witness: in a second run a city answers exactly its watermark date
\* and nothing is admitted.
C1_Witness ==
  /\ run = 2 /\ ev.op = "city" /\ ev.loc /\ ev.fc.kind = "ok"
  /\ file.kind = "json" /\ ev.city \in DOMAIN file.data
  /\ file.data[ev.city] = ev.fc.date /\ ev.fc.date > Sentinel
  /\ last_dates = file.data /\ forecast_list = <<>>
  /\ pc \in {"loop", "save"}

\* C2: once the forecast append of a run is past (and at every later time,
\* run ended or died), whenever the persisted watermark of a city is a date
\* d, a row (city, d) is in the bronze forecast dataset.
C2_WatermarkOnlyIngested ==
  (pc # "bronze_fc" /\ file.kind = "json")
    => \A c \in DOMAIN file.data :
         file.data[c] \in Dates => CountRows(bronze_fc, c, file.data[c]) >= 1

\* C3: for every city the dates accepted over all runs are strictly
\* increasing.
C3_AcceptedStrictlyIncreasing ==
  \A c \in Cities : StrictlyIncreasing(accepted[c])

\* C4: a forecast whose date cannot be parsed is rejected for that city only:
\* the watermark and the accepted rows are untouched and the loop goes on to
\* the next city (and from there to the save and the sinks).
C4_MalformedDateRecoverable ==
  [][(CityStep /\ ev'.loc /\ ev'.fc.kind = "bad")
       => /\ last_dates' = last_dates
          /\ forecast_list' = forecast_list
          /\ i' = i + 1
          /\ pc' \in {"loop", "save"}]_vars

\* C5: whenever the transform produces a result, every forecast row of the
\* bronze forecast dataset appears in it exactly as often as in bronze
\* (exactly once for a row stored once), whatever the detail rows are.
C5_JoinTotality ==
  df_transform.some
    => \A k \in 1..Len(bronze_fc) :
         CountRows(df_transform.rows, bronze_fc[k].city, bronze_fc[k].date)
           = CountRows(bronze_fc, bronze_fc[k].city, bronze_fc[k].date)

\* C6: a run in which every city answers the forecast date that is its
\* persisted watermark accepts nothing, appends nothing to the bronze
\* forecast dataset and leaves the persisted watermark file as it was.
C6_ForecastIdempotence ==
  (pc = "done" /\ sameRemote)
    => /\ forecast_list = <<>>
       /\ Len(bronze_fc) = fcAtStart
       /\ file = fileAtStart

\* C6 witness: a second run, after a first that accepted and stored a date
\* for every city, ends with every city having answered that date again.
C6_Witness ==
  /\ pc = "done" /\ sameRemote /\ run = 2
  /\ \A c \in Cities : CountRows(bronze_fc, c, file.data[c]) = 1
  /\ Len(bronze_det) > detAtStart

\* C7: a failed location resolution makes no further request for the city
\* and changes nothing; a failed forecast request yields no row and leaves
\* the watermark; a failed detail request yields no detail record; in each
\* case the loop goes on with the next city in list order, and the loop's
\* end is followed by the watermark save and the sink stages.
C7_PerCityContainment ==
  [][/\ CityStep => ev'.city = cities[i]
     /\ (CityStep /\ ~ev'.loc)
          => /\ ev'.calls = <<"search">>
             /\ UNCHANGED <<last_dates, forecast_list, country_info>>
             /\ i' = i + 1 /\ pc' = (IF i = Len(cities) THEN "save" ELSE "loop")
     /\ (CityStep /\ ev'.loc /\ ev'.fc.kind = "error"
           /\ Watermark(last_dates, ev'.city) \in Dates)
          => /\ UNCHANGED <<last_dates, forecast_list>>
             /\ "detail" \in {ev'.calls[k] : k \in 1..Len(ev'.calls)}
             /\ i' = i + 1 /\ pc' = (IF i = Len(cities) THEN "save" ELSE "loop")
     /\ (CityStep /\ ev'.loc /\ ~ev'.det)
          => /\ country_info' = country_info
             /\ i' = i + 1 /\ pc' = (IF i = Len(cities) THEN "save" ELSE "loop")
     /\ (pc = "save") => (pc' = "bronze_fc" /\ file' = JsonFile(last_dates))
     /\ (pc = "bronze_fc") => pc' = "bronze_det"]_vars

\* C7 witness: the first city's forecast was accepted, the last city's
\* location did not resolve, and the loop has ended on its way to the save.
C7_Witness ==
  /\ pc = "save" /\ ev.op = "city" /\ ~ev.loc /\ ev.city = cities[Len(cities)]
  /\ forecast_list # <<>> /\ country_info # <<>>

\* C8: when the city-detail append of a run succeeds, the rows the bronze
\* city-detail dataset gained in that run are exactly the records fetched
\* in that run, one per city whose detail fetch succeeded.
C8_DetailFullRefresh ==
  (pc = "transform" /\ ev.op = "bronze_det" /\ ev.ok)
    => Gained(bronze_det, detAtStart) = country_info

BadEntries(f) == {c \in DOMAIN f.data : f.data[c] \notin Dates}
MalformedState(f) == f.kind = "malformed" \/ (f.kind = "json" /\ BadEntries(f) # {})
NothingExtracted ==
  i = 1 /\ forecast_list = <<>> /\ country_info = <<>> /\ ev.op \in {"load", "none"}

C10_StageContainment ==
  [][/\ IsPrefix(bronze_fc, bronze_fc') /\ IsPrefix(bronze_det, bronze_det')
     /\ IsPrefix(silver, silver')
     /\ (pc = "bronze_fc" /\ ~ev'.ok)
          => (bronze_fc' = bronze_fc /\ pc' = "bronze_det")
     /\ (pc = "bronze_det" /\ ~ev'.ok)
          => (bronze_det' = bronze_det /\ pc' = "transform")
     /\ (pc = "transform" /\ ~ev'.ok2)
          => (df_transform' = None /\ silver' = silver /\ pc' = "done")
     /\ (pc = "transform" /\ ~ev'.ok)
          => (silver' = silver /\ pc' = "done")
     /\ (pc = "transform") => (df_transform'.some \/ silver' = silver)
     /\ (pc = "bronze_fc") => UNCHANGED <<bronze_det, silver, file>>
     /\ (pc = "bronze_det") => UNCHANGED <<bronze_fc, silver, file>>
     /\ (pc = "transform") => UNCHANGED <<bronze_fc, bronze_det, file>>]_vars

\* C10 witness: the forecast append failed, the detail rows of the same run
\* were still appended and the run has ended normally.
C10_Witness ==
  /\ pc = "done" /\ run = 1 /\ forecast_list # <<>> /\ bronze_fc = <<>>
  /\ bronze_det = country_info /\ country_info # <<>>

====
